---------------------------- MODULE Spec2Model ----------------------------
(***************************************************************************)
(* Model of trips.py: class Trip (generate_trips, __json_iterator,         *)
(* __get_distance) and class Waypoints.                                    *)
(*                                                                         *)
(* A Trip loads a FeatureCollection once (json_input) and every            *)
(* generate_trips call walks it, APPENDING the computed visit time to the  *)
(* coordinate lists it loaded: the lists of this_coords are the very       *)
(* objects held in json_input, so the loaded data grows by one ordinate    *)
(* per vertex per call.                                                    *)
(*                                                                         *)
(* Numbers are integers.  A coordinate pair is a sequence <<lon, lat, ..>>.*)
(* Python's None is the empty sequence, a given argument v is <<v>>.       *)
(***************************************************************************)
EXTENDS Integers, Sequences, FiniteSets, TLC

VARIABLES
    source,         \* the file the Trip was built from (never written)
    json_input,     \* self.json_input: the loaded features, mutated in place
    start_time,     \* self.start_time
    m_per_second,   \* self.m_per_second
    projected_crs,  \* self.projected_crs: "valid" or "invalid" identifier
    output,         \* outcome of the last generate_trips call
    args,           \* the arguments of the last generate_trips call
    calls           \* number of generate_trips calls made on this Trip

vars == <<source, json_input, start_time, m_per_second, projected_crs,
          output, args, calls>>

---------------------------------------------------------------------------
(* Bounds and program constants *)

MaxCalls == 2

DefaultStartTime == 1583884800
DefaultSpeed == 10

\* Planar metres per degree of longitude / latitude of the projected system.
MetresPerLon == 7
MetresPerLat == 11

None == <<>>
Some(v) == <<v>>

\* Python truthiness of an optional numeric argument: None and 0 are falsy.
Truthy(arg) == arg # None /\ arg[1] # 0

Abs(n) == IF n < 0 THEN -n ELSE n

---------------------------------------------------------------------------
(* Inputs *)

Feature(d, c) == [distance |-> d, coordinates |-> c]

\* Sample FeatureCollections.  'coordinates' is a list of sub-lists of
\* [lon, lat] pairs, the shape __json_iterator flattens.
Collections ==
    { \* a path split over two sub-lists, then a path at distance 25
      << Feature(0,  << << <<0,0>>, <<1,0>> >>, << <<1,1>> >> >>),
         Feature(25, << << <<0,0>>, <<0,1>> >> >>) >>,
      \* first path has a non-zero distance; both paths share the distance;
      \* the first path repeats a vertex
      << Feature(25, << << <<0,0>>, <<0,0>>, <<2,1>> >> >>),
         Feature(25, << << <<1,2>>, <<0,2>> >> >>) >>,
      \* a one-vertex path and a path with no vertices
      << Feature(0,  << << <<2,1>> >> >>),
         Feature(8,  << >>) >>,
      \* a path with no vertices, a one-vertex path, then a longer path
      << Feature(3,  << << >> >>),
         Feature(14, << << <<1,1>> >> >>),
         Feature(14, << << <<0,1>> >>, << <<2,2>>, <<2,0>> >> >>) >> }

OutputTypes == {"json", "waypoints"}
StartArgs == {None, Some(0), Some(100), Some(250)}
SpeedArgs == {None, Some(0), Some(4), Some(-4)}

---------------------------------------------------------------------------
(* Pure helpers *)

\* int(): truncation toward zero of sqrt(d2) / m, for m # 0.
\* The largest k >= 0 with (k*|m|)^2 <= d2, signed as m.
RECURSIVE RootQuot(_, _, _)
RootQuot(d2, m, k) ==
    IF (k + 1) * (k + 1) * m * m <= d2 THEN RootQuot(d2, m, k + 1) ELSE k

\* int(start + distance / m): truncation toward zero of a rational.
\* floor(distance / m) is q; the sum is start + q + r with 0 <= r < 1.
IntOfSum(start, distance, m) ==
    LET n == IF m < 0 THEN -distance ELSE distance
        d == Abs(m)
        q == n \div d
        exact == (n % d = 0)
    IN  IF start + q < 0 /\ ~exact THEN start + q + 1 ELSE start + q

\* pyproj transform(geographic_crs, projected_crs, lat, lon)
Project(pair) == <<pair[1] * MetresPerLon, pair[2] * MetresPerLat>>

\* Trip.__get_distance, squared: only pair[0] and pair[1] are read.
Length2(coords_1, coords_2) ==
    LET a == Project(coords_2)
        b == Project(coords_1)
    IN  (a[1] - b[1]) * (a[1] - b[1]) + (a[2] - b[2]) * (a[2] - b[2])

\* int(line_length / self.m_per_second)
Delta(coords_1, coords_2, m) ==
    LET k == RootQuot(Length2(coords_1, coords_2), m, 0)
    IN  IF m < 0 THEN -k ELSE k

\* [_ for sublist in coordinates for _ in sublist]
RECURSIVE Flatten(_)
Flatten(coordinates) ==
    IF coordinates = <<>> THEN <<>>
    ELSE Head(coordinates) \o Flatten(Tail(coordinates))

\* The flattened list shares its pair objects with the nested one: put the
\* (mutated) pairs of flat back in the sub-list layout of coordinates.
RECURSIVE Unflatten(_, _)
Unflatten(flat, coordinates) ==
    IF coordinates = <<>> THEN <<>>
    ELSE LET n == Len(Head(coordinates))
         IN  << SubSeq(flat, 1, n) >>
             \o Unflatten(SubSeq(flat, n + 1, Len(flat)), Tail(coordinates))

---------------------------------------------------------------------------
(* class Waypoints(dict) *)

EmptyDict == [k \in {} |-> <<>>]

\* set_coords losing the last vertex (an off-by-one range).
set_coords_drop_last(coordinates) ==
    [i \in 1..(Len(coordinates) - 1) |->
        [coordinates |-> <<coordinates[i][1], coordinates[i][2]>>,
         timestamp   |-> coordinates[i][3]]]

\* set_coords emitting the projected pair used for measuring.
set_coords_projected(coordinates) ==
    [i \in 1..Len(coordinates) |->
        [coordinates |-> Project(coordinates[i]),
         timestamp   |-> coordinates[i][3]]]

\* Waypoints.__set_coords
set_coords(coordinates) ==
    [i \in 1..Len(coordinates) |->
        [coordinates |-> <<coordinates[i][1], coordinates[i][2]>>,
         timestamp   |-> coordinates[i][3]]]

\* Waypoints.__init__: the "waypoints" key is set only for a truthy
\* (non-empty) coordinates list.
Waypoints(coordinates) ==
    IF coordinates # <<>>
    THEN [k \in {"waypoints"} |-> set_coords(coordinates)]
    ELSE EmptyDict

\* geojson.LineString(this_coords) wrapped in a Feature
LineStringFeature(this_coords) ==
    [type |-> "Feature",
     geometry |-> [type |-> "LineString", coordinates |-> this_coords]]

---------------------------------------------------------------------------
(* class Trip *)

\* The clock a feature starts with; x is the 1-based position (x = 1 is
\* the code's x == 0).
StartClock(x, item, st, m) ==
    IF x = 1 THEN st ELSE IntOfSum(st, item.distance, m)

\* The inner loop over this_coords from index i on, with the running time:
\* every pair gets the visit time appended.
RECURSIVE Stamp(_, _, _, _)
Stamp(this_coords, i, time, m) ==
    IF i > Len(this_coords) THEN <<>>
    ELSE LET t == IF i = 1 THEN time
                  ELSE time + Delta(this_coords[i - 1], this_coords[i], m)
         IN  << Append(this_coords[i], t) >> \o Stamp(this_coords, i + 1, t, m)

\* transform() raises on an unknown reference system; it is first called
\* for the second vertex of a feature.
TransformRaises(this_coords, crs) ==
    crs = "invalid" /\ Len(this_coords) >= 2

\* What one feature contributes to feature_list.
Emit(this_coords, output_type) ==
    IF output_type = "json" THEN LineStringFeature(this_coords)
    ELSE Waypoints(this_coords)

\* Trip.__json_iterator from feature x on.  Returns the loaded data as the
\* loop leaves it, the feature_list, and whether transform() raised.
RECURSIVE json_iterator(_, _, _, _, _, _)
json_iterator(features, x, st, m, crs, output_type) ==
    IF x > Len(features)
    THEN [json |-> features, feature_list |-> <<>>, raised |-> FALSE]
    ELSE LET item == features[x]
             this_coords == Flatten(item.coordinates)
             time == StartClock(x, item, st, m)
         IN  IF TransformRaises(this_coords, crs)
             THEN LET partial == [this_coords EXCEPT ![1] = Append(@, time)]
                  IN  [json |-> [features EXCEPT ![x].coordinates =
                                    Unflatten(partial, item.coordinates)],
                       feature_list |-> <<>>,
                       raised |-> TRUE]
             ELSE LET stamped == Stamp(this_coords, 1, time, m)
                      rest == json_iterator(
                                 [features EXCEPT ![x].coordinates =
                                     Unflatten(stamped, item.coordinates)],
                                 x + 1, st, m, crs, output_type)
                  IN  [json |-> rest.json,
                       feature_list |->
                           IF rest.raised THEN <<>>
                           ELSE << Emit(stamped, output_type) >>
                                \o rest.feature_list,
                       raised |-> rest.raised]

\* generate_trips: "if start_time:" / "if m_per_second:"
EffectiveStart(arg, current) == IF Truthy(arg) THEN arg[1] ELSE current
EffectiveSpeed(arg, current) == IF Truthy(arg) THEN arg[1] ELSE current

NoOutput == [status |-> "none", type |-> "none", value |-> <<>>]
NoArgs == [output_type |-> "none", start_time |-> None, m_per_second |-> None]

Init ==
    /\ source \in Collections
    /\ json_input = source
    /\ start_time = DefaultStartTime
    /\ m_per_second = DefaultSpeed
    /\ projected_crs \in {"valid", "invalid"}
    /\ output = NoOutput
    /\ args = NoArgs
    /\ calls = 0

\* A generate_trips call that returns its output.
generate_trips(output_type, st_arg, mps_arg) ==
    LET st == EffectiveStart(st_arg, start_time)
        m == EffectiveSpeed(mps_arg, m_per_second)
        r == json_iterator(json_input, 1, st, m, projected_crs, output_type)
    IN  /\ calls < MaxCalls
        /\ ~r.raised
        /\ start_time' = st
        /\ m_per_second' = m
        /\ json_input' = r.json
        /\ output' = [status |-> "returned", type |-> output_type,
                      value |-> r.feature_list]
        /\ args' = [output_type |-> output_type, start_time |-> st_arg,
                    m_per_second |-> mps_arg]
        /\ calls' = calls + 1
        /\ UNCHANGED <<source, projected_crs>>

\* A generate_trips call that ends in the error transform() raises.
generate_trips_raises(output_type, st_arg, mps_arg) ==
    LET st == EffectiveStart(st_arg, start_time)
        m == EffectiveSpeed(mps_arg, m_per_second)
        r == json_iterator(json_input, 1, st, m, projected_crs, output_type)
    IN  /\ calls < MaxCalls
        /\ r.raised
        /\ start_time' = st
        /\ m_per_second' = m
        /\ json_input' = r.json
        /\ output' = [status |-> "raised", type |-> output_type,
                      value |-> <<>>]
        /\ args' = [output_type |-> output_type, start_time |-> st_arg,
                    m_per_second |-> mps_arg]
        /\ calls' = calls + 1
        /\ UNCHANGED <<source, projected_crs>>

Next ==
    \E output_type \in OutputTypes, st_arg \in StartArgs, mps_arg \in SpeedArgs :
        \/ generate_trips(output_type, st_arg, mps_arg)
        \/ generate_trips_raises(output_type, st_arg, mps_arg)

Spec == Init /\ [][Next]_vars

---------------------------------------------------------------------------
(* Observers used by the properties *)

Returned == output.status = "returned"

\* The vertices of input path k, flattened, as the file holds them.
Vertices(k) == Flatten(source[k].coordinates)

\* The vertices of path k as the Trip holds them after the last call.
Loaded(k) == Flatten(json_input[k].coordinates)

\* The waypoints of one returned Waypoints dict (none when the key is absent).
WaypointsOf(d) == IF "waypoints" \in DOMAIN d THEN d["waypoints"] ELSE <<>>

\* The timestamps the last call emitted for path k: the "timestamp" of each
\* waypoint, or the third ordinate of each coordinate tuple.
EmittedTimes(k) ==
    IF output.type = "json"
    THEN LET c == output.value[k].geometry.coordinates
         IN  [i \in 1..Len(c) |-> c[i][3]]
    ELSE LET w == WaypointsOf(output.value[k])
         IN  [i \in 1..Len(w) |-> w[i].timestamp]

\* floor(a / b) for b # 0
FloorDiv(a, b) == IF b > 0 THEN a \div b ELSE (-a) \div (-b)

\* What a Trip freshly built from the same file returns for the call.
FreshOutput ==
    json_iterator(source, 1, start_time, m_per_second, projected_crs,
                  output.type).feature_list

---------------------------------------------------------------------------
(* Properties *)

\* C1: the first timestamp emitted for every path, the first path
\* included, is start_time + floor(distance / m_per_second) with the path's
\* own distance and the start_time and speed in effect for the call.
C1_FirstTimestampFromOwnDistance ==
    Returned =>
        \A k \in 1..Len(source) :
            Len(Vertices(k)) >= 1 =>
                /\ Len(EmittedTimes(k)) >= 1
                /\ EmittedTimes(k)[1] =
                       start_time + FloorDiv(source[k].distance, m_per_second)

\* C2: within one path, for every vertex after the first, the emitted
\* timestamp is the previous one plus the hop's planar distance divided by
\* the speed in effect for the call, truncated (toward zero, so a hop
\* shorter than the speed adds nothing).
C2_HopDeltaIsTruncatedQuotient ==
    Returned =>
        \A k \in 1..Len(source) :
            /\ Len(EmittedTimes(k)) = Len(Vertices(k))
            /\ \A i \in 2..Len(Vertices(k)) :
                   EmittedTimes(k)[i] =
                       EmittedTimes(k)[i - 1]
                       + Delta(Vertices(k)[i - 1], Vertices(k)[i], m_per_second)

\* C3: whenever a call made with a positive speed in effect returns
\* waypoint sequences, first call or later, the timestamps of every
\* sequence are non-decreasing in vertex order.
C3_TimestampsNonDecreasing ==
    (Returned /\ output.type = "waypoints" /\ m_per_second > 0) =>
        \A k \in 1..Len(source) :
            \A i, j \in 1..Len(EmittedTimes(k)) :
                i < j => EmittedTimes(k)[i] <= EmittedTimes(k)[j]

\* C4: generate_trips('waypoints') returns one sequence per input path, in
\* input order, each with as many waypoints as the path has vertices after
\* flattening, in vertex order; paths of one and of no vertices included.
C4_OneSequencePerPathSameLength ==
    (Returned /\ output.type = "waypoints") =>
        /\ Len(output.value) = Len(source)
        /\ \A k \in 1..Len(source) :
               LET w == WaypointsOf(output.value[k])
               IN  /\ Len(w) = Len(Vertices(k))
                   /\ \A i \in 1..Len(w) :
                          /\ w[i].coordinates[1] = Vertices(k)[i][1]
                          /\ w[i].coordinates[2] = Vertices(k)[i][2]

\* A 'waypoints' call has returned for a collection holding a path of no
\* vertices, a path of one vertex and a path split over sub-lists.
C4_Witness ==
    /\ Returned /\ output.type = "waypoints" /\ calls = MaxCalls
    /\ \E k \in 1..Len(source) : Len(Vertices(k)) = 0
    /\ \E k \in 1..Len(source) : Len(Vertices(k)) = 1
    /\ \E k \in 1..Len(source) :
           Len(source[k].coordinates) = 2 /\ Len(Vertices(k)) = 3

\* C5: the 'coordinates' of every emitted waypoint is exactly the
\* (longitude, latitude) pair of the corresponding input vertex, on every
\* call of any sequence of calls; projected coordinates are never emitted.
C5_CoordinatesRoundTrip ==
    (Returned /\ output.type = "waypoints") =>
        \A k \in 1..Len(source) :
            \A i \in 1..Len(WaypointsOf(output.value[k])) :
                WaypointsOf(output.value[k])[i].coordinates = Vertices(k)[i]

\* A later 'waypoints' call has returned a waypoint for a vertex whose
\* projected pair differs from its geographic pair and whose loaded list
\* has since grown by one ordinate per call.
C5_Witness ==
    /\ Returned /\ output.type = "waypoints" /\ calls = MaxCalls
    /\ \E k \in 1..Len(source) :
           \E i \in 1..Len(WaypointsOf(output.value[k])) :
               /\ Project(Vertices(k)[i]) # Vertices(k)[i]
               /\ Len(Loaded(k)[i]) = 2 + MaxCalls

\* C6: a call given m_per_second <= 0 fails with an error and returns
\* nothing.
C6_NonPositiveSpeedRejected ==
    (calls >= 1 /\ args.m_per_second # None /\ args.m_per_second[1] <= 0) =>
        output.status = "raised"

\* C7: in the 'json' output every coordinate tuple has exactly three
\* elements, the third being the timestamp this call computed for the
\* vertex (the ordinate this call appended to the loaded pair).
C7_JsonTuplesAreTriples ==
    (Returned /\ output.type = "json") =>
        \A k \in 1..Len(source) :
            LET c == output.value[k].geometry.coordinates
            IN  \A i \in 1..Len(c) :
                    /\ Len(c[i]) = 3
                    /\ c[i][3] = Loaded(k)[i][Len(Loaded(k)[i])]

\* C8: with an invalid projected reference system the (first) call raises
\* whatever the collection, and leaves the loaded data as it was: no
\* timestamp has been attached to any vertex.
C8_InvalidCrsFailsBeforeStamping ==
    (calls = 1 /\ projected_crs = "invalid") =>
        /\ output.status = "raised"
        /\ json_input = source

\* C9: a call's output is determined by the input paths and the start_time
\* and speed in effect for it: it equals what a Trip freshly built from the
\* same input returns for the same start_time and speed.
C9_OutputIndependentOfEarlierCalls ==
    Returned => output.value = FreshOutput

\* C10: on a fresh Trip, a call given an explicit start_time s (0 included)
\* stamps the first vertex of the first path with s.
C10_ExplicitStartTimeUsed ==
    (calls = 1 /\ Returned /\ args.start_time # None
        /\ Len(Vertices(1)) >= 1) =>
        EmittedTimes(1)[1] = args.start_time[1]

===========================================================================
